---------------------------- MODULE Spec2Model ----------------------------
(***************************************************************************)
(* Model of real_and_imaginary_arrays_generator (PhaseShifts.c).           *)
(*                                                                         *)
(* The routine derives the sampling bounds x_min/x_max of a slit, the      *)
(* gravitational phase, then accumulates cos or sin of the total phase     *)
(* into one slot per diffraction order, divides every slot by resolution   *)
(* and, in REAL mode, prints two diagnostic lines.                         *)
(*                                                                         *)
(* A C double is modelled as a decimal floating-point number <<m, e>>      *)
(* standing for m * 10^e, with Prec significant digits, round-to-nearest-  *)
(* even, overflow to +/-Inf, underflow to zero, and NaN.  Signed zeros and *)
(* subnormals are not distinguished.  Each arithmetic operator binds its   *)
(* operands once (CHOOSE over a singleton) and then combines the values.   *)
(***************************************************************************)
EXTENDS Integers, Sequences, FiniteSets, TLC

(***************************************************************************)
(* The double format                                                       *)
(***************************************************************************)

\* significant decimal digits of a double
Prec == 2

\* largest decimal exponent of a finite double <<m, e>>
EMax == 40

Pow10[k \in 0..9] == IF k = 0 THEN 1 ELSE 10 * Pow10[k - 1]

IAbs(a) == IF a < 0 THEN -a ELSE a

ISgn(a) == IF a < 0 THEN -1 ELSE IF a > 0 THEN 1 ELSE 0

\* the number of decimal digits of a natural number (0 has none)
RECURSIVE Digits(_)
Digits(a) == IF a = 0 THEN 0 ELSE 1 + Digits(a \div 10)

Zero == <<0, 0>>

PosInf == <<1, EMax + 1>>

NegInf == <<-1, EMax + 1>>

NaN == <<0, EMax + 1>>

IsNaN(x) == x = NaN

IsInf(x) == x = PosInf \/ x = NegInf

IsFinite(x) == ~IsNaN(x) /\ ~IsInf(x)

\* a finite result with exponent out of range overflows to an infinity or
\* underflows to zero
Pack(m, e) ==
    IF m = 0 THEN Zero
    ELSE IF e > EMax THEN (IF m > 0 THEN PosInf ELSE NegInf)
    ELSE IF e < -EMax THEN Zero
    ELSE <<m, e>>

\* the double nearest to m * 10^e (ties to even)
Nearest(m, e) ==
    LET a == IAbs(m)
        s == ISgn(m)
        d == Digits(a)
    IN  IF m = 0 THEN Zero
        ELSE IF d > Prec
        THEN LET k    == d - Prec
                 q0   == a \div Pow10[k]
                 r    == a % Pow10[k]
                 half == Pow10[k] \div 2
                 q    == IF r > half \/ (r = half /\ q0 % 2 = 1)
                         THEN q0 + 1 ELSE q0
             IN  IF q = Pow10[Prec]
                 THEN Pack(s * Pow10[Prec - 1], e + k + 1)
                 ELSE Pack(s * q, e + k)
        ELSE Pack(s * a * Pow10[Prec - d], e - (Prec - d))

Round(m, e) ==
    CHOOSE r \in {Nearest(u, v) : u \in {m}, v \in {e}} : TRUE

\* conversion of an int to double
FromInt(k) == Round(k, 0)

Sgn(x) == ISgn(x[1])

FNeg(x) == <<-x[1], x[2]>>

\* fabs()
FAbs(x) == <<IAbs(x[1]), x[2]>>

\* a + b
Sum(a, b) ==
    IF IsNaN(a) \/ IsNaN(b) THEN NaN
    ELSE IF IsInf(a) THEN (IF IsInf(b) /\ a # b THEN NaN ELSE a)
    ELSE IF IsInf(b) THEN b
    ELSE IF a = Zero THEN b
    ELSE IF b = Zero THEN a
    ELSE LET hi == IF a[2] >= b[2] THEN a ELSE b
             lo == IF a[2] >= b[2] THEN b ELSE a
             d  == hi[2] - lo[2]
         IN  IF d > Prec + 1 THEN hi
             ELSE Round(hi[1] * Pow10[d] + lo[1], lo[2])

FAdd(a, b) ==
    CHOOSE r \in {Sum(u, v) : u \in {a}, v \in {b}} : TRUE

\* a - b
FSub(a, b) == FAdd(a, FNeg(b))

\* a * b
Product(a, b) ==
    IF IsNaN(a) \/ IsNaN(b) THEN NaN
    ELSE IF IsInf(a) \/ IsInf(b)
    THEN (IF a = Zero \/ b = Zero THEN NaN
          ELSE IF Sgn(a) * Sgn(b) > 0 THEN PosInf ELSE NegInf)
    ELSE Round(a[1] * b[1], a[2] + b[2])

FMul(a, b) ==
    CHOOSE r \in {Product(u, v) : u \in {a}, v \in {b}} : TRUE

\* a / b
Quotient(a, b) ==
    IF IsNaN(a) \/ IsNaN(b) THEN NaN
    ELSE IF IsInf(a)
    THEN (IF IsInf(b) THEN NaN
          ELSE IF Sgn(a) * (IF Sgn(b) < 0 THEN -1 ELSE 1) > 0
          THEN PosInf ELSE NegInf)
    ELSE IF IsInf(b) THEN Zero
    ELSE IF b = Zero
    THEN (IF a = Zero THEN NaN ELSE IF Sgn(a) > 0 THEN PosInf ELSE NegInf)
    ELSE LET num == IAbs(a[1]) * Pow10[Prec + 1]
             den == IAbs(b[1])
             q   == num \div den
             st  == IF num % den = 0 THEN 0 ELSE 1
         IN  Round(Sgn(a) * Sgn(b) * (10 * q + st), a[2] - b[2] - (Prec + 2))

FDiv(a, b) ==
    CHOOSE r \in {Quotient(u, v) : u \in {a}, v \in {b}} : TRUE

\* a < b (false when either is NaN)
Less(a, b) ==
    /\ ~IsNaN(a)
    /\ ~IsNaN(b)
    /\ \/ Sgn(a) < Sgn(b)
       \/ /\ Sgn(a) = 1
          /\ Sgn(b) = 1
          /\ (a[2] < b[2] \/ (a[2] = b[2] /\ a[1] < b[1]))
       \/ /\ Sgn(a) = -1
          /\ Sgn(b) = -1
          /\ (a[2] > b[2] \/ (a[2] = b[2] /\ a[1] < b[1]))

FLt(a, b) ==
    CHOOSE r \in {Less(u, v) : u \in {a}, v \in {b}} : TRUE

\* a <= b
FLe(a, b) == ~IsNaN(a) /\ ~IsNaN(b) /\ (a = b \/ FLt(a, b))

\* a >= b
FGe(a, b) == FLe(b, a)

(***************************************************************************)
(* <math.h>: pow, cos, sin, tan                                            *)
(***************************************************************************)

\* pow(x, k) for a small natural k
RECURSIVE Pow(_, _)
Pow(x, k) == IF k = 0 THEN FromInt(1) ELSE FMul(x, Pow(x, k - 1))

\* M_PI
M_PI == Round(3141593, -6)

\* pi in milliradians, the unit in which angles are reduced (even, so that
\* pi/2 is a whole number of units)
PiFx == 3142

\* 10^k modulo the period 2 pi
RECURSIVE Pow10Mod(_)
Pow10Mod(k) == IF k = 0 THEN 1 ELSE (10 * Pow10Mod(k - 1)) % (2 * PiFx)

\* a finite x >= 0.01 in milliradians, reduced into 0 .. 2 pi - 1
Reduce(x) ==
    LET k == x[2] + 3
    IN  IF k >= 0 THEN ((x[1] % (2 * PiFx)) * Pow10Mod(k)) % (2 * PiFx)
        ELSE IF -k > Prec THEN 0
        ELSE ((x[1] + Pow10[-k] \div 2) \div Pow10[-k]) % (2 * PiFx)

\* sine of t milliradians for t in 0 .. pi (Bhaskara's rational approximation,
\* exact at 0, pi/2 and pi)
SinHalfTurn(t) ==
    LET p == t * (PiFx - t)
    IN  FDiv(FromInt(16 * p), FromInt(5 * PiFx * PiFx - 4 * p))

\* sine of t milliradians for t in 0 .. 2 pi - 1
SinFx(t) == IF t <= PiFx THEN SinHalfTurn(t) ELSE FNeg(SinHalfTurn(t - PiFx))

\* |x| < 0.01: sin x rounds to x and cos x rounds to 1
IsTiny(x) == x = Zero \/ x[2] + Prec <= -2

\* sin()
Sine(x) ==
    IF ~IsFinite(x) THEN NaN
    ELSE IF IsTiny(x) THEN x
    ELSE IF Sgn(x) > 0 THEN SinFx(Reduce(x))
    ELSE FNeg(SinFx(Reduce(FAbs(x))))

Sin(x) == CHOOSE r \in {Sine(u) : u \in {x}} : TRUE

\* cos()
Cosine(x) ==
    IF ~IsFinite(x) THEN NaN
    ELSE IF IsTiny(x) THEN FromInt(1)
    ELSE SinFx((Reduce(FAbs(x)) + PiFx \div 2) % (2 * PiFx))

Cos(x) == CHOOSE r \in {Cosine(u) : u \in {x}} : TRUE

\* tan()
Tan(x) == FDiv(Sin(x), Cos(x))

(***************************************************************************)
(* Constants of real_and_imaginary_arrays_generator                        *)
(***************************************************************************)

One == FromInt(1)

Two == FromInt(2)

\* acceleration due to gravity
gravity_acceleration == Round(-98, -1)

\* the Van der Waals coefficient, meV * nm^3
C3 == Round(20453, -6)

\* Planck's reduced constant, meV * s
hbar == Round(658212, -18)

\* the literal 1.0e9 (metres to nanometres)
NmPerM == Round(1, 9)

REAL == 1

IMAGINARY == 2

(***************************************************************************)
(* Inputs explored                                                         *)
(***************************************************************************)

\* largest number_of_rows_fourier_coefficient_array explored
MaxN == 3

\* the per-slot record of accumulated values stops growing here
MaxSamples == 6

TiltAngles == {Round(-1, -1), Zero, Round(1, -1)}

WedgeAngles == {Round(-5, -2), Zero, Round(2, -1)}

Resolutions == {FromInt(1), FromInt(2), FromInt(4), FromInt(5)}

Flags == {0, 1}

\* the selector values passed as real_or_imaginary: REAL, IMAGINARY, other
Modes == {REAL, IMAGINARY, 3}

\* values an uninitialised double may be read as
Garbage == {Zero, Round(-7, 0), NaN}

\* values the caller's result may be read as (the function has no return
\* statement)
RetValues == {"real_or_imaginary_array", "indeterminate"}

\* an uninitialised local
Indet == <<0, EMax + 3>>

\* parameter bundles of an ordinary grating: positive slit height
SpRegular ==
    [ tilt_angle : TiltAngles,
      wedge_angle : WedgeAngles,
      slit_height : {Round(5, -8)},
      resolution : Resolutions,
      grating_thickness : {Round(1, -7)},
      grating_period : {Round(1, -7)},
      particle_velocity : {FromInt(1000)},
      account_gravity : Flags,
      account_van_der_waals : Flags,
      number_of_rows_fourier_coefficient_array : 1..MaxN ]

\* parameter bundles with a zero or negative slit height; they satisfy the
\* documented preconditions as well
SpDegenerate ==
    [ tilt_angle : {Round(-1, -1), Zero},
      wedge_angle : {Zero},
      slit_height : {Zero, Round(-5, -8)},
      resolution : {FromInt(1), FromInt(4)},
      grating_thickness : {Round(1, -7)},
      grating_period : {Round(1, -7)},
      particle_velocity : {FromInt(1000)},
      account_gravity : {0},
      account_van_der_waals : {0},
      number_of_rows_fourier_coefficient_array : 1..MaxN ]

\* contents of the caller's array before the call
InitArrays(N) ==
    { [k \in 0..(N - 1) |-> Zero], [k \in 0..(N - 1) |-> FromInt(k + 1)] }

ZPositions == {FromInt(1)}

(***************************************************************************)
(* State                                                                   *)
(***************************************************************************)

VARIABLES
    sp,                         \* the global parameter bundle
    real_or_imaginary_array,    \* the caller's array
    real_or_imaginary,          \* the mode argument
    current_z_position,
    pc,                         \* position in the function
    x_min, x_max,
    distance_to_lower_side, distance_to_upper_side,
    fc, phase_van_der_waals, phase_gravity, time_free_fall,
    j, n, ex, i,
    out,                        \* lines written to stdout
    ret,                        \* what the caller receives
    array0,                     \* history: the array before the call
    terms,                      \* history: the values added to each slot
    writes,                     \* history: <<order, index>> of every array +=
    cubed,                      \* history: the distances given to pow(., 3)
    tick,                       \* history: parity of the steps taken
    uninitRead                  \* history: locals read before assignment

vars == << sp, real_or_imaginary_array, real_or_imaginary, current_z_position,
           pc, x_min, x_max, distance_to_lower_side, distance_to_upper_side,
           fc, phase_van_der_waals, phase_gravity, time_free_fall,
           j, n, ex, i, out, ret, array0, terms, writes, cubed, tick,
           uninitRead >>

N == sp.number_of_rows_fourier_coefficient_array

\* C integer division (truncation toward zero)
CDiv(a, b) == ISgn(a) * ISgn(b) * (IAbs(a) \div IAbs(b))

\* (sp.number_of_rows_fourier_coefficient_array-1)/2
HalfRows(rows) == CDiv(rows - 1, 2)

\* variant: the index counted from 1
IndexOneBased(order, rows) == order + HalfRows(rows) + 1

\* j = n + ((sp.number_of_rows_fourier_coefficient_array-1)/2)
Index(order, rows) == order + HalfRows(rows)

(***************************************************************************)
(* The four-way geometry branch                                            *)
(***************************************************************************)

\* (sp.slit_height * cos(sp.tilt_angle))/2 - sp.slit_height/sp.resolution
UpperEdge(p) ==
    FSub(FDiv(FMul(p.slit_height, Cos(p.tilt_angle)), Two),
         FDiv(p.slit_height, p.resolution))

\* sp.grating_thickness * (tan(sp.wedge_angle)-tan(sp.tilt_angle))
WedgeTerm(p) ==
    FMul(p.grating_thickness, FSub(Tan(p.wedge_angle), Tan(p.tilt_angle)))

XMin(p) ==
    IF FGe(p.tilt_angle, Zero)
    THEN FMul(p.slit_height,
              FSub(FDiv(One, p.resolution), FDiv(Cos(p.tilt_angle), Two)))
    ELSE IF FLe(FAbs(p.tilt_angle), p.wedge_angle)
    THEN FAdd(FNeg(FDiv(FMul(p.slit_height, Cos(p.tilt_angle)), Two)),
              FDiv(p.slit_height, p.resolution))
    ELSE FSub(FAdd(FNeg(FDiv(FMul(p.slit_height, Cos(p.tilt_angle)), Two)),
                   FDiv(p.slit_height, p.resolution)),
              WedgeTerm(p))

\* variant: the comparison of tilt and wedge reversed
XMaxBranchesSwapped(p) ==
    IF FGe(p.tilt_angle, Zero)
    THEN IF FLe(p.tilt_angle, p.wedge_angle)
         THEN FAdd(UpperEdge(p), WedgeTerm(p))
         ELSE UpperEdge(p)
    ELSE UpperEdge(p)

XMax(p) ==
    IF FGe(p.tilt_angle, Zero)
    THEN IF FLe(p.tilt_angle, p.wedge_angle)
         THEN UpperEdge(p)
         ELSE FAdd(UpperEdge(p), WedgeTerm(p))
    ELSE UpperEdge(p)

(***************************************************************************)
(* The phases                                                              *)
(***************************************************************************)

\* variant: the account_gravity flag ignored
GravityPhaseAlways(p, t) ==
    FDiv(FMul(FMul(FMul(Two, M_PI), gravity_acceleration), Pow(t, 2)),
         p.grating_period)

\* (2 * M_PI * gravity_acceleration * pow(time_free_fall, 2)) / sp.grating_period
GravityPhase(p, t) ==
    IF p.account_gravity = 1
    THEN FDiv(FMul(FMul(FMul(Two, M_PI), gravity_acceleration), Pow(t, 2)),
              p.grating_period)
    ELSE Zero

\* fc = 2 * M_PI * n * ex/sp.grating_period
DiffractionPhase(p, order, x) ==
    FDiv(FMul(FMul(FMul(Two, M_PI), FromInt(order)), x), p.grating_period)

\* variant: the distance to the lower side left out of the guard
VdwSkippedUpperOnly(p, dl, du) ==
    p.account_van_der_waals = 0 \/ du = Zero

\* the condition under which phase_van_der_waals is set to 0
VdwSkipped(p, dl, du) ==
    p.account_van_der_waals = 0 \/ dl = Zero \/ du = Zero

\* hbar * sp.particle_velocity * pow(distance, 3)
VdwDivisor(p, d) == FMul(FMul(hbar, p.particle_velocity), Pow(d, 3))

\* the 1/r^3 formula
VdwFormula(p, dl, du) ==
    FSub(FDiv(FMul(FNeg(C3), p.grating_thickness), VdwDivisor(p, dl)),
         FDiv(FMul(C3, p.grating_thickness), VdwDivisor(p, du)))

VdwPhase(p, dl, du) ==
    IF VdwSkipped(p, dl, du) THEN Zero ELSE VdwFormula(p, dl, du)

\* the value one sample accumulates into its slot
Contribution(mode, vdw, f, g) ==
    IF mode = REAL THEN Cos(FAdd(FAdd(vdw, f), g))
    ELSE Sin(FAdd(FAdd(vdw, f), g))

\* variant: = in place of +=
AccumulatedOverwrite(old, c) == c

\* real_or_imaginary_array[j]  += c
Accumulated(old, c) == FAdd(old, c)

\* variant: a plain else in place of else if (real_or_imaginary == 2)
AccumulatesAlways(mode) == TRUE

\* whether a sample writes the array at all
Accumulates(mode) == mode = REAL \/ mode = IMAGINARY

\* variant: ex<=x_max
InRangeInclusive(x, hi) == FLe(x, hi)

\* ex<x_max
InRange(x, hi) == FLt(x, hi)

\* variant: the increment has no effect
NextSampleStuck(p, x) == x

\* ex +=sp.slit_height/sp.resolution
NextSample(p, x) == FAdd(x, FDiv(p.slit_height, p.resolution))

\* real_or_imaginary_array[i]/sp.resolution
Normalised(p, v) == FDiv(v, p.resolution)

\* printf("%.3e"): sign, four significant digits d.ddd and decimal exponent
Format3e(x) ==
    IF IsNaN(x) THEN [special |-> "nan", digits |-> 0, exponent |-> 0]
    ELSE IF IsInf(x)
    THEN [special |-> "inf", digits |-> Sgn(x), exponent |-> 0]
    ELSE IF x = Zero THEN [special |-> "", digits |-> 0, exponent |-> 0]
    ELSE IF Prec >= 4
    THEN LET k == Prec - 4
             a == IAbs(x[1])
             q0 == a \div Pow10[k]
             r == a % Pow10[k]
             up == 2 * r > Pow10[k] \/ (2 * r = Pow10[k] /\ q0 % 2 = 1)
             q == IF up THEN q0 + 1 ELSE q0
         IN  IF q = 10000
             THEN [special |-> "", digits |-> Sgn(x) * 1000,
                   exponent |-> x[2] + Prec]
             ELSE [special |-> "", digits |-> Sgn(x) * q,
                   exponent |-> x[2] + Prec - 1]
    ELSE [special |-> "", digits |-> x[1] * Pow10[4 - Prec],
          exponent |-> x[2] + Prec - 1]

GravityLine(x) == [text |-> "Gravitational phase shift", value |-> Format3e(x)]

VdwLine(x) == [text |-> "Van der Waals phase shift", value |-> Format3e(x)]

\* the two diagnostic lines, in the order printed
Diagnostics(g, v) == << GravityLine(g), VdwLine(v) >>

(***************************************************************************)
(* The call                                                                *)
(***************************************************************************)

\* the state on entry: the locals are uninitialised, nothing has been done
Entry ==
    /\ array0 = real_or_imaginary_array
    /\ pc = "bounds"
    /\ x_min = Indet
    /\ x_max = Indet
    /\ distance_to_lower_side = Indet
    /\ distance_to_upper_side = Indet
    /\ fc = Indet
    /\ phase_van_der_waals = Indet
    /\ phase_gravity = Indet
    /\ time_free_fall = Indet
    /\ j = 0
    /\ n = 0
    /\ ex = Indet
    /\ i = 0
    /\ out = << >>
    /\ ret = "none"
    /\ terms = [k \in 0..(N - 1) |-> << >>]
    /\ writes = {}
    /\ cubed = {}
    /\ tick = 0
    /\ uninitRead = {}

Init ==
    /\ sp \in SpRegular \cup SpDegenerate
    /\ real_or_imaginary \in Modes
    /\ current_z_position \in ZPositions
    /\ real_or_imaginary_array \in InitArrays(N)
    /\ Entry

\* lines 62-90
DeriveBounds ==
    /\ pc = "bounds"
    /\ x_min' = XMin(sp)
    /\ x_max' = XMax(sp)
    /\ pc' = "gravity"
    /\ tick' = 1 - tick
    /\ UNCHANGED << sp, real_or_imaginary_array, real_or_imaginary,
                    current_z_position, distance_to_lower_side,
                    distance_to_upper_side, fc, phase_van_der_waals,
                    phase_gravity, time_free_fall, j, n, ex, i, out, ret,
                    array0, terms, writes, cubed, uninitRead >>

\* lines 93-103, and the initialisation of n in line 105
ComputeGravity ==
    /\ pc = "gravity"
    /\ time_free_fall' = FDiv(current_z_position, sp.particle_velocity)
    /\ phase_gravity' = GravityPhase(sp, time_free_fall')
    /\ n' = -HalfRows(N)
    /\ pc' = "order"
    /\ tick' = 1 - tick
    /\ UNCHANGED << sp, real_or_imaginary_array, real_or_imaginary,
                    current_z_position, x_min, x_max, distance_to_lower_side,
                    distance_to_upper_side, fc, phase_van_der_waals,
                    j, ex, i, out, ret, array0, terms, writes, cubed,
                    uninitRead >>

\* line 105: the test of the outer loop; line 106: ex = x_min
EnterOrder ==
    /\ pc = "order"
    /\ n <= HalfRows(N)
    /\ ex' = x_min
    /\ pc' = "sample"
    /\ tick' = 1 - tick
    /\ UNCHANGED << sp, real_or_imaginary_array, real_or_imaginary,
                    current_z_position, x_min, x_max, distance_to_lower_side,
                    distance_to_upper_side, fc, phase_van_der_waals,
                    phase_gravity, time_free_fall, j, n, i, out, ret,
                    array0, terms, writes, cubed, uninitRead >>

\* line 105: the outer loop ends; line 135: i = 0
LeaveOrders ==
    /\ pc = "order"
    /\ ~(n <= HalfRows(N))
    /\ i' = 0
    /\ pc' = "normalise"
    /\ tick' = 1 - tick
    /\ UNCHANGED << sp, real_or_imaginary_array, real_or_imaginary,
                    current_z_position, x_min, x_max, distance_to_lower_side,
                    distance_to_upper_side, fc, phase_van_der_waals,
                    phase_gravity, time_free_fall, j, n, ex, out, ret,
                    array0, terms, writes, cubed, uninitRead >>

\* lines 106-132: one pass of the inner loop body and its increment
Sample ==
    /\ pc = "sample"
    /\ InRange(ex, x_max)
    /\ distance_to_lower_side' = FMul(FAbs(ex), NmPerM)
    /\ distance_to_upper_side' = FMul(FAbs(FSub(x_max, ex)), NmPerM)
    /\ fc' = DiffractionPhase(sp, n, ex)
    /\ phase_van_der_waals' =
           VdwPhase(sp, distance_to_lower_side', distance_to_upper_side')
    /\ j' = Index(n, N)
    /\ IF Accumulates(real_or_imaginary)
       THEN /\ real_or_imaginary_array' =
                   IF j' \in DOMAIN real_or_imaginary_array
                   THEN [real_or_imaginary_array EXCEPT ![j'] =
                            Accumulated(@, Contribution(real_or_imaginary,
                                    phase_van_der_waals', fc', phase_gravity))]
                   ELSE real_or_imaginary_array
            /\ terms' =
                   IF j' \in DOMAIN terms /\ Len(terms[j']) < MaxSamples
                   THEN [terms EXCEPT ![j'] =
                            Append(@, Contribution(real_or_imaginary,
                                    phase_van_der_waals', fc', phase_gravity))]
                   ELSE terms
            /\ writes' = writes \cup {<<n, j'>>}
       ELSE UNCHANGED << real_or_imaginary_array, terms, writes >>
    /\ cubed' = IF VdwSkipped(sp, distance_to_lower_side',
                              distance_to_upper_side')
                THEN cubed
                ELSE cubed \cup {distance_to_lower_side',
                                 distance_to_upper_side'}
    /\ ex' = NextSample(sp, ex)
    /\ tick' = 1 - tick
    /\ UNCHANGED << sp, real_or_imaginary, current_z_position, pc, x_min,
                    x_max, phase_gravity, time_free_fall, n, i, out, ret,
                    array0, uninitRead >>

\* line 106: the inner loop ends; line 105: n++
EndOrder ==
    /\ pc = "sample"
    /\ ~InRange(ex, x_max)
    /\ n' = n + 1
    /\ pc' = "order"
    /\ tick' = 1 - tick
    /\ UNCHANGED << sp, real_or_imaginary_array, real_or_imaginary,
                    current_z_position, x_min, x_max, distance_to_lower_side,
                    distance_to_upper_side, fc, phase_van_der_waals,
                    phase_gravity, time_free_fall, j, ex, i, out, ret,
                    array0, terms, writes, cubed, uninitRead >>

\* lines 135-137: one slot
NormaliseSlot ==
    /\ pc = "normalise"
    /\ i < N
    /\ real_or_imaginary_array' =
           [real_or_imaginary_array EXCEPT ![i] = Normalised(sp, @)]
    /\ i' = i + 1
    /\ tick' = 1 - tick
    /\ UNCHANGED << sp, real_or_imaginary, current_z_position, pc, x_min,
                    x_max, distance_to_lower_side, distance_to_upper_side,
                    fc, phase_van_der_waals, phase_gravity, time_free_fall,
                    j, n, ex, out, ret, array0, terms, writes, cubed,
                    uninitRead >>

\* line 135: the normalisation loop ends
EndNormalise ==
    /\ pc = "normalise"
    /\ ~(i < N)
    /\ pc' = "diagnostics"
    /\ tick' = 1 - tick
    /\ UNCHANGED << sp, real_or_imaginary_array, real_or_imaginary,
                    current_z_position, x_min, x_max, distance_to_lower_side,
                    distance_to_upper_side, fc, phase_van_der_waals,
                    phase_gravity, time_free_fall, j, n, ex, i, out, ret,
                    array0, terms, writes, cubed, uninitRead >>

\* the values a read of local v may yield
ReadOf(v) == IF v = Indet THEN Garbage ELSE {v}

\* lines 139-143
PrintDiagnostics ==
    /\ pc = "diagnostics"
    /\ real_or_imaginary = REAL
    /\ \E g \in ReadOf(phase_gravity), v \in ReadOf(phase_van_der_waals) :
           out' = out \o Diagnostics(g, v)
    /\ uninitRead' = uninitRead
           \cup (IF phase_gravity = Indet THEN {"phase_gravity"} ELSE {})
           \cup (IF phase_van_der_waals = Indet
                 THEN {"phase_van_der_waals"} ELSE {})
    /\ pc' = "return"
    /\ tick' = 1 - tick
    /\ UNCHANGED << sp, real_or_imaginary_array, real_or_imaginary,
                    current_z_position, x_min, x_max, distance_to_lower_side,
                    distance_to_upper_side, fc, phase_van_der_waals,
                    phase_gravity, time_free_fall, j, n, ex, i, ret,
                    array0, terms, writes, cubed >>

\* line 139: the mode is not REAL
SkipDiagnostics ==
    /\ pc = "diagnostics"
    /\ real_or_imaginary # REAL
    /\ pc' = "return"
    /\ tick' = 1 - tick
    /\ UNCHANGED << sp, real_or_imaginary_array, real_or_imaginary,
                    current_z_position, x_min, x_max, distance_to_lower_side,
                    distance_to_upper_side, fc, phase_van_der_waals,
                    phase_gravity, time_free_fall, j, n, ex, i, out, ret,
                    array0, terms, writes, cubed, uninitRead >>

\* line 144: control reaches the closing brace without a return statement
Return ==
    /\ pc = "return"
    /\ ret' \in RetValues
    /\ pc' = "done"
    /\ tick' = 1 - tick
    /\ UNCHANGED << sp, real_or_imaginary_array, real_or_imaginary,
                    current_z_position, x_min, x_max, distance_to_lower_side,
                    distance_to_upper_side, fc, phase_van_der_waals,
                    phase_gravity, time_free_fall, j, n, ex, i, out,
                    array0, terms, writes, cubed, uninitRead >>

Next ==
    \/ DeriveBounds
    \/ ComputeGravity
    \/ EnterOrder
    \/ LeaveOrders
    \/ Sample
    \/ EndOrder
    \/ NormaliseSlot
    \/ EndNormalise
    \/ PrintDiagnostics
    \/ SkipDiagnostics
    \/ Return

Spec == Init /\ [][Next]_vars

\* parameter bundles for the termination check: every sign of the slit
\* height, and a resolution so fine that the sample step is lost in rounding
SpTermination ==
    [ tilt_angle : TiltAngles,
      wedge_angle : {Zero},
      slit_height : {Round(5, -8), Zero, Round(-5, -8)},
      resolution : Resolutions \cup {Round(1, 6)},
      grating_thickness : {Round(1, -7)},
      grating_period : {Round(1, -7)},
      particle_velocity : {FromInt(1000)},
      account_gravity : {0},
      account_van_der_waals : {0},
      number_of_rows_fourier_coefficient_array : 1..MaxN ]

InitTermination ==
    /\ sp \in SpTermination
    /\ real_or_imaginary \in Modes
    /\ current_z_position \in ZPositions
    /\ real_or_imaginary_array = [k \in 0..(N - 1) |-> Zero]
    /\ Entry

\* a step of the call, seen through tick alone: every action of Next flips
\* tick, and Next has a step exactly when pc is not "done"
Step == pc # "done" /\ tick' = 1 - tick

\* Step is enabled exactly when Next is
StepMatchesNext == (pc # "done") <=> ENABLED Next

\* the call is the only thread: it takes its next step whenever it has one
FairSpec == InitTermination /\ [][Next]_vars /\ WF_tick(Step)

(***************************************************************************)
(* Properties                                                              *)
(***************************************************************************)

Done == pc = "done"

Slots == 0..(N - 1)

\* the order whose contributions go to slot 0 is -(N-1)/2
Half == (N - 1) \div 2

\* the documented preconditions of a call
Valid ==
    /\ N >= 1
    /\ N % 2 = 1
    /\ FLt(Zero, sp.resolution)
    /\ sp.particle_velocity # Zero
    /\ sp.grating_period # Zero

\* start + seq[1] + seq[2] + ..., added one at a time from the left
RECURSIVE SumFrom(_, _)
SumFrom(start, seq) ==
    IF seq = << >> THEN start
    ELSE SumFrom(FAdd(start, Head(seq)), Tail(seq))

\* the record of the values added to slot k is complete
Complete(k) == Len(terms[k]) < MaxSamples

\* the call has passed the loops
PastLoops == pc \in {"normalise", "diagnostics", "return", "done"}

\* C1 as stated: after a call every slot holds its value from before the
\* call plus this call's contribution (the normalised sum of the values
\* sampled for the slot's order), whatever the slot held before.
C1_IncrementOnly ==
    Done =>
        \A k \in Slots :
            Complete(k) =>
                real_or_imaginary_array[k] =
                    FAdd(array0[k],
                         FDiv(SumFrom(Zero, terms[k]), sp.resolution))

\* C1 amended: after a call every slot holds (its value from before the call
\* plus the values sampled for order k - (N-1)/2, added one at a time),
\* divided by resolution: what the slot held before is rescaled too.
C1_AccumulateThenRescale ==
    /\ \A w \in writes : w[1] = w[2] - Half
    /\ Done =>
           \A k \in Slots :
               Complete(k) =>
                   real_or_imaginary_array[k] =
                       FDiv(SumFrom(array0[k], terms[k]), sp.resolution)

C1_Witness ==
    /\ Done
    /\ sp.resolution # One
    /\ \E k \in Slots :
           array0[k] # Zero /\ Len(terms[k]) >= 2 /\ Complete(k)

\* C2: for odd N every array write has 0 <= j <= N-1, its order lies in
\* [-(N-1)/2, (N-1)/2], no two orders share a slot, and once the loops have
\* run over a non-empty sample range every slot has been written by exactly
\* one order.
C2_OrderIndexBijection ==
    (N % 2 = 1) =>
        /\ \A w \in writes : w[2] \in Slots /\ w[1] \in -Half..Half
        /\ \A v, w \in writes : v[2] = w[2] => v[1] = w[1]
        /\ (PastLoops /\ FLt(x_min, x_max)
                /\ real_or_imaginary \in {REAL, IMAGINARY}) =>
               /\ {w[2] : w \in writes} = Slots
               /\ Cardinality(writes) = N

C2_Witness == Done /\ N >= 3 /\ N % 2 = 1 /\ Cardinality(writes) = N

\* C3: when x_min >= x_max a call accumulates into no slot and divides every
\* slot by resolution once; a zero array stays all zero in either mode.
C3_EmptyRange ==
    (Done /\ FGe(x_min, x_max)) =>
        /\ writes = {}
        /\ \A k \in Slots :
               /\ terms[k] = << >>
               /\ real_or_imaginary_array[k] = FDiv(array0[k], sp.resolution)
               /\ array0[k] = Zero => real_or_imaginary_array[k] = Zero

C3_Witness ==
    /\ Done
    /\ FGe(x_min, x_max)
    /\ real_or_imaginary \in {REAL, IMAGINARY}
    /\ \A k \in Slots : array0[k] = Zero

\* C4: with gravity and Van der Waals disabled and a zero array, after a
\* REAL call the slot of order 0 is (number of samples)/resolution, each
\* sample having added exactly 1; after an IMAGINARY call it is 0.
C4_ZeroPerturbation ==
    (/\ Done
     /\ sp.account_gravity = 0
     /\ sp.account_van_der_waals = 0
     /\ \A k \in Slots : array0[k] = Zero
     /\ Complete(Half)) =>
        /\ real_or_imaginary = REAL =>
               /\ \A q \in 1..Len(terms[Half]) : terms[Half][q] = One
               /\ real_or_imaginary_array[Half] =
                      FDiv(FromInt(Len(terms[Half])), sp.resolution)
        /\ real_or_imaginary = IMAGINARY =>
               real_or_imaginary_array[Half] = Zero

C4_Witness ==
    /\ Done
    /\ real_or_imaginary = REAL
    /\ sp.account_gravity = 0
    /\ sp.account_van_der_waals = 0
    /\ \A k \in Slots : array0[k] = Zero
    /\ Len(terms[Half]) >= 2
    /\ Complete(Half)

WedgeShift ==
    IF FGe(sp.wedge_angle, Zero) THEN Zero
    ELSE FMul(sp.grating_thickness, Tan(sp.wedge_angle))

\* the rounding allowed between the two expressions of the half-width: one
\* unit in the last-but-one digit of the magnitudes that are added
SymmetryTolerance ==
    FMul(FAdd(FAbs(sp.slit_height), FAbs(WedgeShift)), Round(1, 1 - Prec))

C6_Diagnostics ==
    /\ out # << >> => real_or_imaginary = REAL /\ i = N /\ PastLoops
    /\ pc \in {"return", "done"} =>
           IF real_or_imaginary = REAL
           THEN /\ phase_van_der_waals # Indet
                /\ out = << [text |-> "Gravitational phase shift",
                             value |-> Format3e(phase_gravity)],
                            [text |-> "Van der Waals phase shift",
                             value |-> Format3e(phase_van_der_waals)] >>
           ELSE out = << >>

\* C7: the Van der Waals phase of a sample is 0 when the flag is 0 or either
\* distance is exactly 0, and the 1/r^3 formula is evaluated only with the
\* flag on and both distances non-zero: no zero distance is cubed and
\* divided by.
C7_SingularityGuard ==
    /\ Zero \notin cubed
    /\ cubed # {} => sp.account_van_der_waals # 0
    /\ (/\ phase_van_der_waals # Indet
        /\ \/ sp.account_van_der_waals = 0
           \/ distance_to_lower_side = Zero
           \/ distance_to_upper_side = Zero) =>
           phase_van_der_waals = Zero

C7_Witness ==
    /\ sp.account_van_der_waals = 1
    /\ distance_to_lower_side = Zero
    /\ phase_van_der_waals = Zero
    /\ cubed # {}

\* C8 as stated: every call whose inputs satisfy the documented
\* preconditions terminates.
C8_Terminates == Valid => <>Done

\* every executed ex += slit_height/resolution strictly increases ex
StepAdvances ==
    (pc = "sample" /\ FLt(ex, x_max)) =>
        FLt(ex, FAdd(ex, FDiv(sp.slit_height, sp.resolution)))

\* C8 amended: a call whose inputs satisfy the documented preconditions
\* terminates provided every executed ex += slit_height/resolution strictly
\* increases ex (a positive step that is not lost in rounding).
C8_TerminatesIfStepAdvances == (Valid /\ []StepAdvances) => <>Done

C8_Witness ==
    /\ Done
    /\ Valid
    /\ phase_van_der_waals # Indet
    /\ FLt(Zero, FDiv(sp.slit_height, sp.resolution))

\* C9: every local variable is assigned before it is read.
C9_AssignedBeforeRead == uninitRead = {}

\* C10: when the mode is neither REAL nor IMAGINARY a call adds nothing to
\* any slot, prints nothing, and still divides every slot by resolution.
C10_OtherMode ==
    (real_or_imaginary \notin {REAL, IMAGINARY}) =>
        /\ writes = {}
        /\ out = << >>
        /\ ~PastLoops => real_or_imaginary_array = array0
        /\ Done =>
               \A k \in Slots :
                   /\ terms[k] = << >>
                   /\ real_or_imaginary_array[k] =
                          FDiv(array0[k], sp.resolution)

C10_Witness ==
    /\ Done
    /\ real_or_imaginary \notin {REAL, IMAGINARY}
    /\ phase_van_der_waals # Indet
    /\ sp.resolution # One
    /\ \E k \in Slots : array0[k] # Zero

=============================================================================
